---- MODULE Spec2Model ----
(***************************************************************************)
(* Model of src/transcribe.py: the transcription pipeline (main) and the   *)
(* helpers it calls.  Strings are sequences of one-character strings, so   *)
(* that replace(), lower() and concatenation are computed, not assumed.    *)
(* Every invocation of main is a process p \in Procs; the object store,    *)
(* the local file system and the wall clock are shared between them.       *)
(***************************************************************************)
EXTENDS Integers, Sequences, FiniteSets, TLC

\* ------------------------------------------------------------------------
\* Bounds of the model
\* ------------------------------------------------------------------------
MaxFrags == 2          \* fragments the streams of all invocations yield at most
MaxTicks == 2          \* clock ticks (sub-second units) the clock advances at most

\* Clock resolution: time.time() is a float; the model counts half seconds.
TicksPerSec == 2

Procs == {1, 2}

\* ------------------------------------------------------------------------
\* Strings
\* ------------------------------------------------------------------------
\* Python's None.  It is a one-element sequence whose element is no character,
\* so that it can be compared with strings.
None == <<"<None>">>

\* Python truthiness of an Optional[str]: None and "" are falsy.
Truthy(s) == s # None /\ s # <<>>

UpperChars == <<"A","B","C","D","E","F","G","H","I","J","K","L","M",
                "N","O","P","Q","R","S","T","U","V","W","X","Y","Z">>
LowerChars == <<"a","b","c","d","e","f","g","h","i","j","k","l","m",
                "n","o","p","q","r","s","t","u","v","w","x","y","z">>

IsUpper(c) == \E i \in DOMAIN UpperChars : UpperChars[i] = c

LowerChar(c) ==
    IF IsUpper(c)
    THEN LowerChars[CHOOSE i \in DOMAIN UpperChars : UpperChars[i] = c]
    ELSE c

\* str.lower()
Lower(s) == [i \in DOMAIN s |-> LowerChar(s[i])]

\* str.replace(old, new) for one-character old and new
Replace(s, old, new) == [i \in DOMAIN s |-> IF s[i] = old THEN new ELSE s[i]]

Contains(s, c) == \E i \in DOMAIN s : s[i] = c

HasUpper(s) == \E i \in DOMAIN s : IsUpper(s[i])

\* "(unset)", what gcloud prints for a property that has no value
UNSET == <<"(", "u", "n", "s", "e", "t", ")">>

\* ------------------------------------------------------------------------
\* Naming
\* ------------------------------------------------------------------------
StagingPrefix == <<"g","e","m","i","n","i","-","t","r","a","n","s","c","r","i","b","e","r","-">>
OutputSuffix  == <<"-","g","e","m","i","n","i","-","v","i","d","e","o","-",
                   "t","r","a","n","s","c","r","i","b","e">>

SafeProject(project_id) == Lower(Replace(Replace(project_id, ":", "-"), ".", "-"))

get_staging_bucket_name(project_id, location) ==
    StagingPrefix \o SafeProject(project_id) \o <<"-">> \o Lower(location)

get_output_bucket_name(project_id) ==
    SafeProject(project_id) \o OutputSuffix

\* int(time.time()): the clock value truncated to whole seconds
IntTime(t) == t \div TicksPerSec

\* f"gemini-transcriber-staging/{int(time.time())}_{file_name}"
BlobName(t, file_name) == <<"gemini-transcriber-staging/", ToString(IntTime(t)), "_">> \o file_name

\* os.path.splitext: the name up to the last dot; a dot at the start of the
\* name (or following only dots) does not start an extension.
LastDot(s) ==
    IF \E i \in DOMAIN s : s[i] = "."
    THEN CHOOSE i \in DOMAIN s : s[i] = "." /\ \A j \in DOMAIN s : s[j] = "." => j <= i
    ELSE 0

SplitextRoot(s) ==
    LET d == LastDot(s) IN
    IF d = 0 \/ \A j \in 1..(d-1) : s[j] = "."
    THEN s
    ELSE SubSeq(s, 1, d - 1)

\* sanitize_filename: root of the name, lowercased, spaces replaced by
\* underscores, with the extension .txt.  The inputs of the model are Latin,
\* on which the transliteration leaves the name as it is.
sanitize_filename(filename) ==
    Replace(Lower(SplitextRoot(filename)), " ", "_") \o <<".", "t", "x", "t">>


\* f"gs://{bucket_name}/{destination_blob_name}"
GcsUri(bucket_name, blob_name) == <<"gs://">> \o bucket_name \o <<"/">> \o blob_name

\* ------------------------------------------------------------------------
\* Inputs
\* ------------------------------------------------------------------------
ProjectIds  == { <<"B", ":", "c">> }
ProjectArgs == { None, UNSET } \cup ProjectIds
BucketArgs  == { None, <<"b", "k">> }
Locations   == { <<"u", "s">>, <<"E", ".", "1">> }
ApiKeys     == { None, <<>>, <<"k">> }
FileNames   == { <<"M", " ", "v", ".", "m", "p", "4">> }

\* What one item of the response stream carries: a text, possibly empty, or
\* no text at all (None).
Fragments == { <<"a">>, <<"b", "c">>, <<>>, None }

ArgSets == [ file_exists : BOOLEAN, project : ProjectArgs, bucket : BucketArgs,
             location : Locations, keep_gcs : BOOLEAN, api_key : ApiKeys,
             file_name : FileNames ]

\* The stages of the pipeline, in the order main passes them
StageOrder == << "START", "PROJECT_RESOLVED", "BUCKETS_READY", "UPLOADED",
                 "TRANSCRIBED", "PERSISTED", "CLEANED_UP", "DONE" >>

\* ------------------------------------------------------------------------
\* State
\* ------------------------------------------------------------------------
VARIABLES
    pc,                   \* where each invocation of main stands
    args,                 \* the parsed command line of each invocation
    project_id,           \* main's local project_id
    staging_bucket_name,  \* main's local staging_bucket_name
    output_bucket_name,   \* main's local output_bucket_name
    blob_name,            \* main's local blob_name
    gcs_uri,              \* main's local gcs_uri
    yielded,              \* the fragments the response stream has yielded so far
    text_chunk,           \* the fragment the loop body is working on
    full_text,            \* the accumulator of transcribe_video(_genai)
    displayed,            \* what the loop has printed to standard output
    transcription_text,   \* main's local transcription_text
    exit_code,            \* the exit code of the process, -1 while it runs
    pending_exit,         \* 1 while SystemExit(1) travels through the finally block
    calls,                \* the gateway operations each invocation has made
    stages,               \* the stages each invocation has entered
    now,                  \* the wall clock, in ticks
    buckets,              \* buckets known to exist in the object store
    blobs,                \* the blobs of the object store
    local_files           \* the files under workspace/output

vars == << pc, args, project_id, staging_bucket_name, output_bucket_name, blob_name,
           gcs_uri, yielded, text_chunk, full_text, displayed, transcription_text,
           exit_code, pending_exit, calls, stages, now, buckets, blobs, local_files >>

locals == << project_id, staging_bucket_name, output_bucket_name, blob_name, gcs_uri,
             yielded, text_chunk, full_text, displayed, transcription_text >>

stores == << buckets, blobs, local_files >>

\* One entry of the log of operations: the operation, its bucket, blob or file
\* name and text arguments (None where it has none) and how it ended:
\* "ok", "raised" (the exception left the function), "warned" (the function
\* caught the exception itself), "called" (an inference call, whose stream is
\* consumed afterwards) or None (a lookup of the project, whose failure and
\* whose empty answer main treats alike).
Call(op, bucket, name, text, result) ==
    [op |-> op, bucket |-> bucket, name |-> name, text |-> text, result |-> result]

Log(p, c) == calls' = [calls EXCEPT ![p] = Append(@, c)]

Enter(p, stage) == stages' = [stages EXCEPT ![p] = Append(@, stage)]

Goto(p, label) == pc' = [pc EXCEPT ![p] = label]

\* The process ends with the given exit code.
Exit(p, code) ==
    /\ pc' = [pc EXCEPT ![p] = "done"]
    /\ exit_code' = [exit_code EXCEPT ![p] = code]

InitCommon ==
    /\ project_id = [p \in Procs |-> None]
    /\ staging_bucket_name = [p \in Procs |-> None]
    /\ output_bucket_name = [p \in Procs |-> None]
    /\ blob_name = [p \in Procs |-> None]
    /\ gcs_uri = [p \in Procs |-> None]
    /\ yielded = [p \in Procs |-> <<>>]
    /\ text_chunk = [p \in Procs |-> None]
    /\ full_text = [p \in Procs |-> <<>>]
    /\ displayed = [p \in Procs |-> <<>>]
    /\ transcription_text = [p \in Procs |-> None]
    /\ exit_code = [p \in Procs |-> -1]
    /\ pending_exit = [p \in Procs |-> 0]
    /\ calls = [p \in Procs |-> <<>>]
    /\ now = 0
    /\ buckets = {}
    /\ blobs = {}
    /\ local_files = {}

\* One invocation of main; the other process never starts.
Init ==
    /\ InitCommon
    /\ args \in [Procs -> ArgSets]
    /\ args[2] = args[1]
    /\ pc = [p \in Procs |-> IF p = 1 THEN "start" ELSE "idle"]
    /\ stages = [p \in Procs |-> IF p = 1 THEN <<"START">> ELSE <<>>]


\* ------------------------------------------------------------------------
\* main, lines 232-257: the input file and the project identity
\* ------------------------------------------------------------------------
\* if not os.path.exists(args.file_path): sys.exit(1)
CheckFile(p) ==
    /\ pc[p] = "start"
    /\ IF args[p].file_exists
       THEN /\ project_id' = [project_id EXCEPT ![p] = args[p].project]
            /\ Goto(p, "infer_adc")
            /\ UNCHANGED << exit_code, stages >>
       ELSE /\ Exit(p, 1)
            /\ Enter(p, "ERROR")
            /\ UNCHANGED project_id
    /\ UNCHANGED << args, staging_bucket_name, output_bucket_name, blob_name, gcs_uri,
                    yielded, text_chunk, full_text, displayed, transcription_text,
                    pending_exit, calls, now, stores >>

\* if not project_id: try: _, project_id = google.auth.default() except: pass
InferADC(p) ==
    /\ pc[p] = "infer_adc"
    /\ IF Truthy(project_id[p])
       THEN UNCHANGED << project_id, calls >>
       ELSE \/ /\ Log(p, Call("google.auth.default", None, None, None, None))
               /\ UNCHANGED project_id
            \/ \E r \in {None} \cup ProjectIds :
                 /\ Log(p, Call("google.auth.default", None, None, None, None))
                 /\ project_id' = [project_id EXCEPT ![p] = r]
    /\ Goto(p, "infer_gcloud")
    /\ UNCHANGED << args, staging_bucket_name, output_bucket_name, blob_name, gcs_uri,
                    yielded, text_chunk, full_text, displayed, transcription_text,
                    exit_code, pending_exit, stages, now, stores >>

\* Mutant of InferGcloud: gcloud is asked whenever no --project was given, and
\* its answer replaces what the default credentials yielded.
InferGcloudAlways(p) ==
    /\ pc[p] = "infer_gcloud"
    /\ IF Truthy(args[p].project)
       THEN UNCHANGED << project_id, calls >>
       ELSE \/ /\ Log(p, Call("gcloud config get-value project", None, None, None, None))
               /\ UNCHANGED project_id
            \/ \E r \in {<<>>, UNSET} \cup ProjectIds :
                 /\ Log(p, Call("gcloud config get-value project", None, None, None, None))
                 /\ project_id' = [project_id EXCEPT ![p] = r]
    /\ Goto(p, "check_project")
    /\ UNCHANGED << args, staging_bucket_name, output_bucket_name, blob_name, gcs_uri,
                    yielded, text_chunk, full_text, displayed, transcription_text,
                    exit_code, pending_exit, stages, now, stores >>

\* if not project_id: try: project_id = <gcloud config get-value project> except: pass
InferGcloud(p) ==
    /\ pc[p] = "infer_gcloud"
    /\ IF Truthy(project_id[p])
       THEN UNCHANGED << project_id, calls >>
       ELSE \/ /\ Log(p, Call("gcloud config get-value project", None, None, None, None))
               /\ UNCHANGED project_id
            \/ \E r \in {<<>>, UNSET} \cup ProjectIds :
                 /\ Log(p, Call("gcloud config get-value project", None, None, None, None))
                 /\ project_id' = [project_id EXCEPT ![p] = r]
    /\ Goto(p, "check_project")
    /\ UNCHANGED << args, staging_bucket_name, output_bucket_name, blob_name, gcs_uri,
                    yielded, text_chunk, full_text, displayed, transcription_text,
                    exit_code, pending_exit, stages, now, stores >>

\* Mutant of ProjectUnresolved: the comparison with "(unset)" is missing.
ProjectUnresolvedNoUnset(p) == ~Truthy(project_id[p])

\* if not project_id or project_id == "(unset)": sys.exit(1)
ProjectUnresolved(p) == ~Truthy(project_id[p]) \/ project_id[p] = UNSET

CheckProject(p) ==
    /\ pc[p] = "check_project"
    /\ IF ProjectUnresolved(p)
       THEN /\ Exit(p, 1)
            /\ Enter(p, "ERROR")
       ELSE /\ Goto(p, "staging_bucket")
            /\ Enter(p, "PROJECT_RESOLVED")
            /\ UNCHANGED exit_code
    /\ UNCHANGED << args, locals, pending_exit, calls, now, stores >>


\* ------------------------------------------------------------------------
\* main, lines 259-277: the buckets, the blob name and the upload
\* ------------------------------------------------------------------------
\* How a call of ensure_bucket can end: the bucket exists ("exists"), it was
\* absent and has been created ("created"), exists() or create() raised and the
\* function caught it ("warned", lines 37-39), or storage.Client() raised on
\* line 27, outside the try block, and the exception leaves the function
\* ("raised").
EnsureResults == { "exists", "created", "warned", "raised" }

ensure_bucket(p, bucket_name, result) ==
    /\ result \in EnsureResults
    /\ result = "created" => bucket_name \notin buckets
    /\ buckets' = IF result \in { "exists", "created" }
                  THEN buckets \cup { bucket_name }
                  ELSE buckets
    /\ Log(p, Call("ensure_bucket", bucket_name, None, None,
                   IF result \in { "exists", "created" } THEN "ok" ELSE result))

\* An exception nobody catches ends the process with exit code 1.
Uncaught(p) ==
    /\ Exit(p, 1)
    /\ Enter(p, "ERROR")

\* Mutant of StagingBucket: the derived bucket is used without ensure_bucket.
StagingBucketNoEnsure(p) ==
    /\ pc[p] = "staging_bucket"
    /\ staging_bucket_name' =
         [staging_bucket_name EXCEPT ![p] =
            IF Truthy(args[p].bucket)
            THEN args[p].bucket
            ELSE get_staging_bucket_name(project_id[p], args[p].location)]
    /\ Goto(p, "output_bucket")
    /\ UNCHANGED << args, project_id, output_bucket_name, blob_name, gcs_uri,
                    yielded, text_chunk, full_text, displayed, transcription_text,
                    exit_code, pending_exit, calls, stages, now, stores >>

\* staging_bucket_name = args.bucket; if not staging_bucket_name: derive, ensure
StagingBucket(p) ==
    /\ pc[p] = "staging_bucket"
    /\ IF Truthy(args[p].bucket)
       THEN /\ staging_bucket_name' = [staging_bucket_name EXCEPT ![p] = args[p].bucket]
            /\ Goto(p, "output_bucket")
            /\ UNCHANGED << calls, buckets, exit_code, stages >>
       ELSE LET name == get_staging_bucket_name(project_id[p], args[p].location) IN
            /\ staging_bucket_name' = [staging_bucket_name EXCEPT ![p] = name]
            /\ \E r \in EnsureResults :
                 /\ ensure_bucket(p, name, r)
                 /\ IF r = "raised"
                    THEN Uncaught(p)
                    ELSE Goto(p, "output_bucket") /\ UNCHANGED << exit_code, stages >>
    /\ UNCHANGED << args, project_id, output_bucket_name, blob_name, gcs_uri,
                    yielded, text_chunk, full_text, displayed, transcription_text,
                    pending_exit, now, blobs, local_files >>

\* output_bucket_name = get_output_bucket_name(project_id); ensure_bucket(...)
OutputBucket(p) ==
    /\ pc[p] = "output_bucket"
    /\ LET name == get_output_bucket_name(project_id[p]) IN
       /\ output_bucket_name' = [output_bucket_name EXCEPT ![p] = name]
       /\ \E r \in EnsureResults :
            /\ ensure_bucket(p, name, r)
            /\ IF r = "raised"
               THEN Uncaught(p)
               ELSE /\ Goto(p, "blob_name")
                    /\ Enter(p, "BUCKETS_READY")
                    /\ UNCHANGED exit_code
    /\ UNCHANGED << args, project_id, staging_bucket_name, blob_name, gcs_uri,
                    yielded, text_chunk, full_text, displayed, transcription_text,
                    pending_exit, now, blobs, local_files >>

\* file_name = os.path.basename(args.file_path)
\* blob_name = f"gemini-transcriber-staging/{int(time.time())}_{file_name}"
BuildBlobName(p) ==
    /\ pc[p] = "blob_name"
    /\ blob_name' = [blob_name EXCEPT ![p] = BlobName(now, args[p].file_name)]
    /\ Goto(p, "upload")
    /\ UNCHANGED << args, project_id, staging_bucket_name, output_bucket_name, gcs_uri,
                    yielded, text_chunk, full_text, displayed, transcription_text,
                    exit_code, pending_exit, calls, stages, now, stores >>

\* A blob of the object store: its bucket and name, the invocation that wrote
\* it last and, for a text blob, its content.
Blob(bucket, name, owner, text) ==
    [bucket |-> bucket, name |-> name, owner |-> owner, text |-> text]

\* Writing a blob replaces the blob of the same bucket and name.
PutBlob(store, b) ==
    { x \in store : ~(x.bucket = b.bucket /\ x.name = b.name) } \cup { b }

HasBlob(store, bucket, name) == \E x \in store : x.bucket = bucket /\ x.name = name

DropBlob(store, bucket, name) == { x \in store : ~(x.bucket = bucket /\ x.name = name) }

\* try: gcs_uri = upload_to_gcs(...)
UploadOk(p) ==
    /\ Log(p, Call("upload_to_gcs", staging_bucket_name[p], blob_name[p], None, "ok"))
    /\ blobs' = PutBlob(blobs, Blob(staging_bucket_name[p], blob_name[p], p, None))
    /\ gcs_uri' = [gcs_uri EXCEPT ![p] = GcsUri(staging_bucket_name[p], blob_name[p])]
    /\ Goto(p, "transcribe")
    /\ Enter(p, "UPLOADED")
    /\ UNCHANGED exit_code

\* Mutant of UploadRaised: the upload moved into the try block whose finally
\* block cleans up.
UploadRaisedCleansUp(p) ==
    /\ calls' = [calls EXCEPT ![p] =
                   @ \o << Call("upload_to_gcs", staging_bucket_name[p], blob_name[p],
                                 None, "raised") >>
                     \o (IF args[p].keep_gcs
                         THEN << >>
                         ELSE << Call("delete_blob", staging_bucket_name[p], blob_name[p],
                                      None, "raised") >>)]
    /\ blobs' = blobs
    /\ Exit(p, 1)
    /\ Enter(p, "ERROR")
    /\ UNCHANGED gcs_uri

\* except Exception: sys.exit(1).  The request may have stored the blob before
\* it failed.
UploadRaised(p) ==
    /\ Log(p, Call("upload_to_gcs", staging_bucket_name[p], blob_name[p], None, "raised"))
    /\ \/ blobs' = blobs
       \/ blobs' = PutBlob(blobs, Blob(staging_bucket_name[p], blob_name[p], p, None))
    /\ Exit(p, 1)
    /\ Enter(p, "ERROR")
    /\ UNCHANGED gcs_uri

Upload(p) ==
    /\ pc[p] = "upload"
    /\ UploadOk(p) \/ UploadRaised(p)
    /\ UNCHANGED << args, project_id, staging_bucket_name, output_bucket_name, blob_name,
                    yielded, text_chunk, full_text, displayed, transcription_text,
                    pending_exit, now, buckets, local_files >>


\* ------------------------------------------------------------------------
\* main, lines 279-298: the inference call, and the loops of transcribe_video
\* (lines 96-103) and transcribe_video_genai (lines 205-211)
\* ------------------------------------------------------------------------
\* Mutant of UseGenai: the two branches of the dispatch swapped.
UseGenaiSwapped(p) == ~Truthy(args[p].api_key)

\* if args.api_key: the GenAI SDK path, else the Vertex path
UseGenai(p) == Truthy(args[p].api_key)

TranscribeOp(p) == IF UseGenai(p) THEN "transcribe_video_genai" ELSE "transcribe_video"

\* The call of the inference function up to its loop: the client, the model
\* and the request are set up, which may raise, and the stream is opened.
Transcribe(p) ==
    /\ pc[p] = "transcribe"
    /\ Log(p, Call(TranscribeOp(p), None, gcs_uri[p], None, "called"))
    /\ \/ Goto(p, "stream_next")
       \/ Goto(p, "except")
    /\ full_text' = [full_text EXCEPT ![p] = <<>>]
    /\ UNCHANGED << args, project_id, staging_bucket_name, output_bucket_name, blob_name,
                    gcs_uri, yielded, text_chunk, displayed, transcription_text,
                    exit_code, pending_exit, stages, now, stores >>

\* The number of fragments the streams have yielded, all invocations together
RECURSIVE SumLen(_, _)
SumLen(f, S) == IF S = {} THEN 0
                ELSE LET x == CHOOSE y \in S : TRUE IN Len(f[x]) + SumLen(f, S \ {x})

YieldedByAll == SumLen(yielded, Procs)

\* The for statement asks the stream for its next item: the stream yields a
\* fragment, ends (the function returns full_text) or raises.
StreamNext(p) ==
    /\ pc[p] = "stream_next"
    /\ \/ /\ YieldedByAll < MaxFrags
          /\ \E f \in Fragments :
               /\ yielded' = [yielded EXCEPT ![p] = Append(@, f)]
               /\ text_chunk' = [text_chunk EXCEPT ![p] = f]
          /\ Goto(p, "consume")
          /\ UNCHANGED << transcription_text, stages >>
       \/ /\ transcription_text' = [transcription_text EXCEPT ![p] = full_text[p]]
          /\ Goto(p, "write_local")
          /\ Enter(p, "TRANSCRIBED")
          /\ UNCHANGED << yielded, text_chunk >>
       \/ /\ Goto(p, "except")
          /\ UNCHANGED << yielded, text_chunk, transcription_text, stages >>
    /\ UNCHANGED << args, project_id, staging_bucket_name, output_bucket_name, blob_name,
                    gcs_uri, full_text, displayed, exit_code, pending_exit, calls, now,
                    stores >>

\* Mutant of Accumulate: the operands of the concatenation swapped.
AccumulatePrepend(acc, chunk) == chunk \o acc

\* full_text += text_chunk
Accumulate(acc, chunk) == acc \o chunk

\* print(text_chunk, end="", flush=True)
Display(out, chunk) == out \o chunk

\* transcribe_video: text_chunk = response.text; print; full_text += text_chunk.
\* A response without text has no .text to read: the loop raises.
ConsumeVertex(p) ==
    IF text_chunk[p] = None
    THEN /\ Goto(p, "except")
         /\ UNCHANGED << displayed, full_text >>
    ELSE /\ displayed' = [displayed EXCEPT ![p] = Display(@, text_chunk[p])]
         /\ full_text' = [full_text EXCEPT ![p] = Accumulate(@, text_chunk[p])]
         /\ Goto(p, "stream_next")

\* transcribe_video_genai: if chunk.text: print; full_text += chunk.text
ConsumeGenai(p) ==
    /\ IF Truthy(text_chunk[p])
       THEN /\ displayed' = [displayed EXCEPT ![p] = Display(@, text_chunk[p])]
            /\ full_text' = [full_text EXCEPT ![p] = Accumulate(@, text_chunk[p])]
       ELSE UNCHANGED << displayed, full_text >>
    /\ Goto(p, "stream_next")

Consume(p) ==
    /\ pc[p] = "consume"
    /\ IF UseGenai(p) THEN ConsumeGenai(p) ELSE ConsumeVertex(p)
    /\ UNCHANGED << args, project_id, staging_bucket_name, output_bucket_name, blob_name,
                    gcs_uri, yielded, text_chunk, transcription_text, exit_code,
                    pending_exit, calls, stages, now, stores >>

\* ------------------------------------------------------------------------
\* main, lines 300-330: the two outputs, the handler and the cleanup
\* ------------------------------------------------------------------------
\* A file under workspace/output
File(name, text) == [name |-> name, text |-> text]

PutFile(files, f) == { x \in files : x.name # f.name } \cup { f }

\* makedirs, open(local_output_path, "w") and f.write(transcription_text)
WriteLocalOk(p) ==
    LET output_filename == sanitize_filename(args[p].file_name) IN
    /\ Log(p, Call("write_local", None, output_filename, transcription_text[p], "ok"))
    /\ local_files' = PutFile(local_files, File(output_filename, transcription_text[p]))
    /\ Goto(p, "mirror")

\* Mutant of WriteLocalRaised: the failure of the local write is only a
\* warning, and the run goes on to the cleanup as after a success.
WriteLocalRaisedWarns(p) ==
    LET output_filename == sanitize_filename(args[p].file_name) IN
    /\ Log(p, Call("write_local", None, output_filename, transcription_text[p], "raised"))
    /\ \/ local_files' = local_files
       \/ local_files' = PutFile(local_files, File(output_filename, <<>>))
    /\ Goto(p, "finally")

\* Mutant of WriteLocalRaised: the failure of the local write is swallowed and
\* the run goes on to the mirror.
WriteLocalRaisedContinue(p) ==
    LET output_filename == sanitize_filename(args[p].file_name) IN
    /\ Log(p, Call("write_local", None, output_filename, transcription_text[p], "raised"))
    /\ \/ local_files' = local_files
       \/ local_files' = PutFile(local_files, File(output_filename, <<>>))
    /\ Goto(p, "mirror")

\* makedirs or open raises and leaves the directory as it was, or write raises
\* after open has truncated the file.
WriteLocalRaised(p) ==
    LET output_filename == sanitize_filename(args[p].file_name) IN
    /\ Log(p, Call("write_local", None, output_filename, transcription_text[p], "raised"))
    /\ \/ local_files' = local_files
       \/ local_files' = PutFile(local_files, File(output_filename, <<>>))
    /\ Goto(p, "except")

WriteLocal(p) ==
    /\ pc[p] = "write_local"
    /\ WriteLocalOk(p) \/ WriteLocalRaised(p)
    /\ UNCHANGED << args, locals, exit_code, pending_exit, stages, now, buckets, blobs >>

\* try: upload_text_to_gcs(output_bucket_name, output_filename, transcription_text)
MirrorOk(p) ==
    LET output_filename == sanitize_filename(args[p].file_name) IN
    /\ Log(p, Call("upload_text_to_gcs", output_bucket_name[p], output_filename,
                   transcription_text[p], "ok"))
    /\ blobs' = PutBlob(blobs, Blob(output_bucket_name[p], output_filename, p,
                                    transcription_text[p]))
    /\ Goto(p, "finally")
    /\ Enter(p, "PERSISTED")
    /\ UNCHANGED pending_exit

\* Mutant of MirrorRaised: the inner try block is missing, and the exception
\* reaches the handler of the outer one.
MirrorRaisedFatal(p) ==
    LET output_filename == sanitize_filename(args[p].file_name) IN
    /\ Log(p, Call("upload_text_to_gcs", output_bucket_name[p], output_filename,
                   transcription_text[p], "raised"))
    /\ UNCHANGED blobs
    /\ Goto(p, "except")
    /\ UNCHANGED << stages, pending_exit >>

\* except Exception: print a warning
MirrorRaised(p) ==
    LET output_filename == sanitize_filename(args[p].file_name) IN
    /\ Log(p, Call("upload_text_to_gcs", output_bucket_name[p], output_filename,
                   transcription_text[p], "raised"))
    /\ UNCHANGED blobs
    /\ Goto(p, "finally")
    /\ Enter(p, "PERSISTED")
    /\ UNCHANGED pending_exit

Mirror(p) ==
    /\ pc[p] = "mirror"
    /\ MirrorOk(p) \/ MirrorRaised(p)
    /\ UNCHANGED << args, locals, exit_code, now, buckets, local_files >>

\* Mutant of Except: the handler saves what the loop had accumulated.
ExceptSavesPartial(p) ==
    /\ pc[p] = "except"
    /\ pending_exit' = [pending_exit EXCEPT ![p] = 1]
    /\ Goto(p, "finally")
    /\ Enter(p, "ERROR")
    /\ Log(p, Call("write_local", None, sanitize_filename(args[p].file_name),
                   full_text[p], "ok"))
    /\ local_files' = PutFile(local_files,
                              File(sanitize_filename(args[p].file_name), full_text[p]))
    /\ UNCHANGED << args, locals, exit_code, now, buckets, blobs >>

\* Mutant of Except: the handler prints the error and forgets sys.exit(1).
ExceptNoExit(p) ==
    /\ pc[p] = "except"
    /\ Goto(p, "finally")
    /\ Enter(p, "ERROR")
    /\ UNCHANGED << args, locals, exit_code, pending_exit, calls, now, stores >>

\* except Exception: print, traceback.print_exc(), sys.exit(1).  SystemExit
\* passes through the finally block before it ends the process.
Except(p) ==
    /\ pc[p] = "except"
    /\ pending_exit' = [pending_exit EXCEPT ![p] = 1]
    /\ Goto(p, "finally")
    /\ Enter(p, "ERROR")
    /\ UNCHANGED << args, locals, exit_code, calls, now, stores >>

\* Mutants of CleanupWanted: the cleanup placed at the end of the try block
\* instead of the finally block, and the cleanup that ignores --keep-gcs.
CleanupOnSuccessOnly(p) == ~args[p].keep_gcs /\ pending_exit[p] = 0

CleanupAlways(p) == TRUE

\* if not args.keep_gcs
CleanupWanted(p) == ~args[p].keep_gcs

\* delete_blob(staging_bucket_name, blob_name): the blob is deleted, or the
\* call raises (the blob is absent, or the request fails) and main prints a
\* warning.
DeleteOk(p) ==
    /\ HasBlob(blobs, staging_bucket_name[p], blob_name[p])
    /\ Log(p, Call("delete_blob", staging_bucket_name[p], blob_name[p], None, "ok"))
    /\ blobs' = DropBlob(blobs, staging_bucket_name[p], blob_name[p])

DeleteRaised(p) ==
    /\ Log(p, Call("delete_blob", staging_bucket_name[p], blob_name[p], None, "raised"))
    /\ UNCHANGED blobs

\* Mutant of Leave: the run is reported as done whatever happened before.
LeaveAlwaysDone(p) ==
    /\ Exit(p, IF pending_exit[p] = 1 THEN 1 ELSE 0)
    /\ stages' = [stages EXCEPT ![p] = @ \o <<"CLEANED_UP", "DONE">>]

\* The end of main: a pending SystemExit(1) ends the process with 1, a normal
\* return with 0.
Leave(p) ==
    IF pending_exit[p] = 1
    THEN /\ Exit(p, 1)
         /\ UNCHANGED stages
    ELSE /\ Exit(p, 0)
         /\ stages' = [stages EXCEPT ![p] = @ \o <<"CLEANED_UP", "DONE">>]

\* Mutant of Finally: the try block around delete_blob is missing, and its
\* exception ends the process with exit code 1.
FinallyEscalates(p) ==
    /\ pc[p] = "finally"
    /\ IF CleanupWanted(p)
       THEN \/ DeleteOk(p) /\ Leave(p)
            \/ DeleteRaised(p) /\ Exit(p, 1) /\ UNCHANGED stages
       ELSE UNCHANGED << calls, blobs >> /\ Leave(p)
    /\ UNCHANGED << args, locals, pending_exit, now, buckets, local_files >>

\* finally: if not args.keep_gcs: try: delete_blob(...) except Exception: warn
Finally(p) ==
    /\ pc[p] = "finally"
    /\ IF CleanupWanted(p)
       THEN DeleteOk(p) \/ DeleteRaised(p)
       ELSE UNCHANGED << calls, blobs >>
    /\ Leave(p)
    /\ UNCHANGED << args, locals, pending_exit, now, buckets, local_files >>

\* ------------------------------------------------------------------------
\* The clock
\* ------------------------------------------------------------------------
\* Time passes.  main reads the clock on line 270 only, so the clock is let
\* run as long as some invocation has that line before it.
BeforeClockRead == { "start", "infer_adc", "infer_gcloud", "check_project",
                     "staging_bucket", "output_bucket", "blob_name" }

Tick ==
    /\ now < MaxTicks
    /\ \E p \in Procs : pc[p] \in BeforeClockRead
    /\ now' = now + 1
    /\ UNCHANGED << pc, args, locals, exit_code, pending_exit, calls, stages, stores >>

Step(p) ==
    \/ CheckFile(p)
    \/ InferADC(p)
    \/ InferGcloud(p)
    \/ CheckProject(p)
    \/ StagingBucket(p)
    \/ OutputBucket(p)
    \/ BuildBlobName(p)
    \/ Upload(p)
    \/ Transcribe(p)
    \/ StreamNext(p)
    \/ Consume(p)
    \/ WriteLocal(p)
    \/ Mirror(p)
    \/ Except(p)
    \/ Finally(p)

Next == (\E p \in Procs : Step(p)) \/ Tick

Spec == Init /\ [][Next]_vars


\* ------------------------------------------------------------------------
\* Reading the log of operations
\* ------------------------------------------------------------------------
CallsOf(p, ops) == SelectSeq(calls[p], LAMBDA c : c.op \in ops)

Made(p, op, result) == \E i \in DOMAIN calls[p] : calls[p][i].op = op /\ calls[p][i].result = result

Ended(p) == pc[p] = "done"

UploadReturned(p) == Made(p, "upload_to_gcs", "ok")

InferenceOps == { "transcribe_video", "transcribe_video_genai" }

\* The inference function returned its text.
InferenceReturned(p) == transcription_text[p] # None

\* The inference function was called and raised.
InferenceRaised(p) ==
    /\ Len(CallsOf(p, InferenceOps)) > 0
    /\ ~InferenceReturned(p)
    /\ pc[p] \in { "except", "finally", "done" }

\* ------------------------------------------------------------------------
\* Claims
\* ------------------------------------------------------------------------
\* C1: a run in which upload_to_gcs returned and --keep-gcs is not set has, when
\* the process ends, called delete_blob exactly once, with the bucket and the
\* blob name of the upload, whether inference, the local write or the mirror
\* succeeded or raised.
C1_DeleteExactlyOnce ==
    \A p \in Procs :
        (Ended(p) /\ UploadReturned(p) /\ ~args[p].keep_gcs) =>
            LET d == CallsOf(p, { "delete_blob" })
                u == CallsOf(p, { "upload_to_gcs" })
            IN  /\ Len(d) = 1
                /\ Len(u) = 1
                /\ d[1].bucket = u[1].bucket
                /\ d[1].name = u[1].name

\* A run whose local write raised after a successful inference has ended with
\* the staged blob deleted.
C1_Witness ==
    /\ Ended(1) /\ UploadReturned(1) /\ ~args[1].keep_gcs
    /\ Made(1, "write_local", "raised")
    /\ Made(1, "delete_blob", "ok")
    /\ exit_code[1] = 1

\* C2: a run with --keep-gcs never calls delete_blob, on no path, and the blob
\* it staged is still in the staging bucket when it ends.
C2_KeepGcsNeverDeletes ==
    \A p \in Procs :
        args[p].keep_gcs =>
            /\ Len(CallsOf(p, { "delete_blob" })) = 0
            /\ (Ended(p) /\ UploadReturned(p)) =>
                   HasBlob(blobs, staging_bucket_name[p], blob_name[p])

\* A run with --keep-gcs has ended after a failed inference, its blob in place.
C2_Witness ==
    /\ Ended(1) /\ args[1].keep_gcs /\ UploadReturned(1)
    /\ InferenceRaised(1)
    /\ HasBlob(blobs, staging_bucket_name[1], blob_name[1])

\* C3: when inference and the local write succeeded and upload_text_to_gcs
\* raised, the run ends with exit code 0 and the local output file holds the
\* accumulated transcription.
C3_MirrorFailureNotFatal ==
    \A p \in Procs :
        (Ended(p) /\ InferenceReturned(p) /\ Made(p, "write_local", "ok")
                  /\ Made(p, "upload_text_to_gcs", "raised")) =>
            /\ exit_code[p] = 0
            /\ File(sanitize_filename(args[p].file_name), transcription_text[p]) \in local_files

\* A run with a transcription of two fragments has ended after the mirror raised.
C3_Witness ==
    /\ Ended(1) /\ Made(1, "upload_text_to_gcs", "raised")
    /\ full_text[1] = <<"a", "b", "c">>
    /\ File(<<"m", "_", "v", ".", "t", "x", "t">>, <<"a", "b", "c">>) \in local_files
    /\ exit_code[1] = 0


\* C4: when ensure_bucket fails for the staging bucket the run still attempts
\* upload_to_gcs, and when that upload fails too the process exits with 1 and
\* no inference function is ever called.
EnsureFailed(p, bucket_name) ==
    \E i \in DOMAIN calls[p] :
        /\ calls[p][i].op = "ensure_bucket"
        /\ calls[p][i].bucket = bucket_name
        /\ calls[p][i].result \in { "warned", "raised" }

C4_UploadAttemptedAfterEnsureFailure ==
    \A p \in Procs :
        (Ended(p) /\ EnsureFailed(p, staging_bucket_name[p])) =>
            /\ Len(CallsOf(p, { "upload_to_gcs" })) = 1
            /\ Made(p, "upload_to_gcs", "raised") =>
                   (exit_code[p] = 1 /\ Len(CallsOf(p, InferenceOps)) = 0)

\* C5: a run that has reached the transcribe stage has called exactly one
\* inference function: transcribe_video_genai when an API key was given,
\* transcribe_video when none was.
PastDispatch == { "stream_next", "consume", "write_local", "mirror", "except",
                  "finally", "done" }

C5_ExactlyOneVariant ==
    \A p \in Procs :
        (UploadReturned(p) /\ pc[p] \in PastDispatch) =>
            LET c == CallsOf(p, InferenceOps) IN
            /\ Len(c) = 1
            /\ c[1].op = IF Truthy(args[p].api_key)
                         THEN "transcribe_video_genai"
                         ELSE "transcribe_video"

\* Variant B has run to the end of a run that was given an API key.
C5_Witness ==
    /\ Ended(1) /\ args[1].api_key = <<"k">>
    /\ Made(1, "transcribe_video_genai", "called")
    /\ InferenceReturned(1)

\* C6: the text an inference function returns is the concatenation of the
\* fragments of the stream in the order of their arrival, and whenever the
\* loop asks for the next fragment it has printed and accumulated all the
\* fragments it was given before.
TextOf(f) == IF f = None THEN <<>> ELSE f

RECURSIVE ConcatAll(_)
ConcatAll(fs) == IF fs = <<>> THEN <<>> ELSE ConcatAll(SubSeq(fs, 1, Len(fs) - 1)) \o TextOf(fs[Len(fs)])

C6_AccumulatesInArrivalOrder ==
    \A p \in Procs :
        /\ pc[p] = "stream_next" =>
               /\ full_text[p] = ConcatAll(yielded[p])
               /\ displayed[p] = ConcatAll(yielded[p])
        /\ pc[p] = "consume" =>
               /\ Len(yielded[p]) > 0
               /\ text_chunk[p] = yielded[p][Len(yielded[p])]
               /\ full_text[p] = ConcatAll(SubSeq(yielded[p], 1, Len(yielded[p]) - 1))
               /\ displayed[p] = full_text[p]
        /\ InferenceReturned(p) =>
               /\ transcription_text[p] = ConcatAll(yielded[p])
               /\ displayed[p] = transcription_text[p]

\* The stream yielded "bc" and then "a", and the function returned "bca".
C6_Witness ==
    /\ yielded[1] = << <<"b", "c">>, <<"a">> >>
    /\ transcription_text[1] = <<"b", "c", "a">>

\* C7: a run that ends after a fatal failure (no input file, no project
\* identity, upload_to_gcs raised, inference raised) ends with exit code 1; a
\* run in which the upload, the inference and the local write succeeded ends
\* with exit code 0, whatever ensure_bucket, the mirror and the cleanup did.
FatalFailure(p) ==
    \/ ~args[p].file_exists
    \/ ProjectUnresolved(p)
    \/ Made(p, "upload_to_gcs", "raised")
    \/ InferenceRaised(p)

PipelineSucceeded(p) ==
    /\ UploadReturned(p)
    /\ InferenceReturned(p)
    /\ Made(p, "write_local", "ok")

C7_ExitCode ==
    \A p \in Procs :
        Ended(p) =>
            /\ FatalFailure(p) => exit_code[p] = 1
            /\ PipelineSucceeded(p) => exit_code[p] = 0

\* A run has ended with exit code 0 although ensure_bucket, the mirror and the
\* cleanup all failed.
C7_Witness ==
    /\ Ended(1) /\ exit_code[1] = 0
    /\ EnsureFailed(1, staging_bucket_name[1])
    /\ EnsureFailed(1, output_bucket_name[1])
    /\ Made(1, "upload_text_to_gcs", "raised")
    /\ Made(1, "delete_blob", "raised")

\* C8: the bucket names derived from a project identifier that contains ':' or
\* '.', and from any region, contain no ':', no '.' and no uppercase character.
CleanName(s) == ~Contains(s, ":") /\ ~Contains(s, ".") /\ ~HasUpper(s)

C8_BucketNamesClean ==
    \A p \in Procs :
        /\ (staging_bucket_name[p] # None /\ ~Truthy(args[p].bucket)) =>
               CleanName(staging_bucket_name[p])
        /\ output_bucket_name[p] # None => CleanName(output_bucket_name[p])


\* ------------------------------------------------------------------------
\* Two invocations of main
\* ------------------------------------------------------------------------
\* Two invocations started for the same file, with the same project and the
\* same staging bucket.
ConcArgSets == { a \in ArgSets : /\ a.file_exists
                                 /\ a.project \in ProjectIds
                                 /\ Truthy(a.bucket)
                                 /\ a.location = <<"u", "s">>
                                 /\ a.api_key = None }

InitConc ==
    /\ InitCommon
    /\ args \in [Procs -> ConcArgSets]
    /\ \A p \in Procs : ~args[p].keep_gcs
    /\ pc = [p \in Procs |-> "start"]
    /\ stages = [p \in Procs |-> <<"START">>]

SpecConc == InitConc /\ [][Next]_vars

\* C9: two invocations of main that use the same staging bucket build
\* different blob paths, so that the blob an invocation has staged stays its
\* own, neither overwritten nor deleted by the other, until it cleans up.
Staged == { "transcribe", "stream_next", "consume", "write_local", "mirror",
            "except", "finally" }

C9_BlobPathUnique ==
    \A p \in Procs : \A q \in Procs \ {p} :
        /\ (/\ blob_name[p] # None /\ blob_name[q] # None
            /\ staging_bucket_name[p] = staging_bucket_name[q])
               => blob_name[p] # blob_name[q]
        /\ (pc[p] \in Staged /\ UploadReturned(p)) =>
               Blob(staging_bucket_name[p], blob_name[p], p, None) \in blobs


\* C10: a run enters the stages in the order START, PROJECT_RESOLVED,
\* BUCKETS_READY, UPLOADED, TRANSCRIBED, PERSISTED, CLEANED_UP, DONE, none of
\* them twice and none out of order; a run that has reached DONE has entered
\* all of them; and once a run is in ERROR it stays there and performs no
\* upload, inference or persistence operation any more.
IsPrefix(s, t) == Len(s) <= Len(t) /\ s = SubSeq(t, 1, Len(s))

InError(st) == Len(st) > 0 /\ st[Len(st)] = "ERROR"

StagesInOrder(st) ==
    \/ IsPrefix(st, StageOrder)
    \/ InError(st) /\ IsPrefix(SubSeq(st, 1, Len(st) - 1), StageOrder)

PipelineOps == { "upload_to_gcs", "transcribe_video", "transcribe_video_genai",
                 "write_local", "upload_text_to_gcs" }

C10_StagesLinear ==
    /\ [](\A p \in Procs :
            /\ StagesInOrder(stages[p])
            /\ (Ended(p) /\ exit_code[p] = 0) => stages[p] = StageOrder)
    /\ [][\A p \in Procs :
            /\ IsPrefix(stages[p], stages'[p])
            /\ InError(stages[p]) =>
                  /\ stages'[p] = stages[p]
                  /\ SelectSeq(calls'[p], LAMBDA c : c.op \in PipelineOps)
                        = SelectSeq(calls[p], LAMBDA c : c.op \in PipelineOps)]_vars

\* A run whose inference raised is in ERROR, has cleaned up after it and has
\* ended.
C10_Witness ==
    /\ Ended(1) /\ InError(stages[1])
    /\ InferenceRaised(1)
    /\ Made(1, "delete_blob", "ok")


\* ------------------------------------------------------------------------
\* Order of the operations in the log
\* ------------------------------------------------------------------------
\* ensure_bucket was called for the bucket before the call at index j of the log.
EnsuredBefore(p, bucket_name, j) ==
    \E i \in 1..(j - 1) :
        /\ calls[p][i].op = "ensure_bucket"
        /\ calls[p][i].bucket = bucket_name

UploadCalls(p) == { j \in DOMAIN calls[p] : calls[p][j].op = "upload_to_gcs" }

\* C11 as claimed: in a run that reaches the upload, ensure_bucket was called
\* for the staging bucket before upload_to_gcs, whether the name was derived or
\* given with --bucket, and ensure_bucket was called for the output bucket.
C11_EnsureBeforeUploadAlways ==
    \A p \in Procs : \A j \in UploadCalls(p) :
        /\ EnsuredBefore(p, staging_bucket_name[p], j)
        /\ EnsuredBefore(p, output_bucket_name[p], j)

\* C11 as amended: in a run that reaches the upload, ensure_bucket was called
\* for the output bucket before upload_to_gcs; it was called for the staging
\* bucket before upload_to_gcs when the name was derived from project and
\* region, and was not called for it at all when the name was given with
\* --bucket.
C11_EnsureBeforeUploadWhenDerived ==
    \A p \in Procs : \A j \in UploadCalls(p) :
        /\ EnsuredBefore(p, output_bucket_name[p], j)
        /\ calls[p][j].bucket = staging_bucket_name[p]
        /\ IF Truthy(args[p].bucket)
           THEN /\ staging_bucket_name[p] = args[p].bucket
                /\ ~EnsuredBefore(p, staging_bucket_name[p], Len(calls[p]) + 1)
           ELSE /\ staging_bucket_name[p]
                      = get_staging_bucket_name(project_id[p], args[p].location)
                /\ EnsuredBefore(p, staging_bucket_name[p], j)

\* A run with a derived staging bucket has uploaded after both ensure_bucket
\* calls, the one for the staging bucket having ended in a warning.
C11_Witness ==
    /\ UploadReturned(1) /\ ~Truthy(args[1].bucket)
    /\ EnsureFailed(1, staging_bucket_name[1])
    /\ Len(CallsOf(1, { "ensure_bucket" })) = 2


\* C12: a run whose input file does not exist, or whose project identity is
\* empty, absent or "(unset)" after all its sources, calls no operation of the
\* storage or the inference gateway, leaves the object store and the output
\* directory as they were and exits with code 1.
GatewayOps == { "ensure_bucket", "upload_to_gcs", "transcribe_video",
                "transcribe_video_genai", "upload_text_to_gcs", "delete_blob" }

NoIdentity(p) == project_id[p] = None \/ project_id[p] = <<>> \/ project_id[p] = UNSET

C12_NoGatewayCallWithoutInputs ==
    \A p \in Procs :
        /\ ~args[p].file_exists =>
               /\ Len(CallsOf(p, GatewayOps \cup { "write_local" })) = 0
               /\ Len(calls[p]) = 0
        /\ (Ended(p) /\ (~args[p].file_exists \/ NoIdentity(p))) =>
               /\ exit_code[p] = 1
               /\ Len(CallsOf(p, GatewayOps \cup { "write_local" })) = 0
               /\ blobs = {} /\ buckets = {} /\ local_files = {}

\* A run has ended because gcloud answered "(unset)", after both lookups.
C12_Witness ==
    /\ Ended(1) /\ args[1].file_exists
    /\ project_id[1] = UNSET /\ args[1].project = None
    /\ Len(calls[1]) = 2
    /\ exit_code[1] = 1


\* C13: the project identity is resolved in strict precedence.  A value given
\* with --project is used as it is and no other source is asked; the default
\* credentials are asked exactly when no value was given; gcloud is asked
\* exactly when neither of the two yielded an identifier; and a source that
\* fails or answers nothing lets the run go on to the next one.
AdcOp == "google.auth.default"

GcloudOp == "gcloud config get-value project"

Asked(p, op) == Len(CallsOf(p, { op }))

PastAdc == { "infer_gcloud", "check_project" }

C13_ProjectPrecedence ==
    /\ [](\A p \in Procs :
            /\ Asked(p, AdcOp) <= 1 /\ Asked(p, GcloudOp) <= 1
            /\ Truthy(args[p].project) =>
                   /\ Asked(p, AdcOp) = 0 /\ Asked(p, GcloudOp) = 0
                   /\ (args[p].file_exists /\ pc[p] \notin { "start", "idle" }) =>
                          project_id[p] = args[p].project
            /\ (pc[p] \in PastAdc /\ ~Truthy(args[p].project)) => Asked(p, AdcOp) = 1
            /\ (pc[p] = "check_project" /\ Asked(p, GcloudOp) = 0) => Truthy(project_id[p])
            /\ Asked(p, GcloudOp) = 1 =>
                   /\ Asked(p, AdcOp) = 1
                   /\ calls[p][1].op = AdcOp /\ calls[p][2].op = GcloudOp)
    /\ [][\A p \in Procs :
            /\ Asked(p, AdcOp)' > Asked(p, AdcOp) =>
                   /\ ~Truthy(args[p].project)
                   /\ pc'[p] = "infer_gcloud"
            /\ Asked(p, GcloudOp)' > Asked(p, GcloudOp) =>
                   /\ ~Truthy(project_id[p])
                   /\ pc'[p] = "check_project"]_vars

\* The default credentials yielded nothing, gcloud yielded the identifier and
\* the run went on with it.
C13_Witness ==
    /\ args[1].project = None
    /\ Asked(1, AdcOp) = 1 /\ Asked(1, GcloudOp) = 1
    /\ project_id[1] = <<"B", ":", "c">>
    /\ UploadReturned(1)


\* C14: upload_text_to_gcs is called at most once in a run, only after the
\* local write has succeeded, and with the file name and the text of that
\* write; the file name is the sanitized name of the input file and the file
\* holds that text.
MirrorCalls(p) == { j \in DOMAIN calls[p] : calls[p][j].op = "upload_text_to_gcs" }

C14_LocalFirstThenMirror ==
    \A p \in Procs :
        /\ Cardinality(MirrorCalls(p)) <= 1
        /\ \A j \in MirrorCalls(p) :
             /\ \E i \in 1..(j - 1) :
                  /\ calls[p][i].op = "write_local"
                  /\ calls[p][i].result = "ok"
                  /\ calls[p][i].name = calls[p][j].name
                  /\ calls[p][i].text = calls[p][j].text
             /\ ~Made(p, "write_local", "raised")
             /\ calls[p][j].name = sanitize_filename(args[p].file_name)
             /\ calls[p][j].bucket = output_bucket_name[p]
             /\ File(calls[p][j].name, calls[p][j].text) \in local_files

\* The mirror has stored the text "abc" that the local file holds.
C14_Witness ==
    /\ Made(1, "upload_text_to_gcs", "ok")
    /\ File(<<"m", "_", "v", ".", "t", "x", "t">>, <<"a", "b", "c">>) \in local_files
    /\ Blob(output_bucket_name[1], <<"m", "_", "v", ".", "t", "x", "t">>, 1,
            <<"a", "b", "c">>) \in blobs

\* C15: the exit code of a run that attempted the cleanup does not depend on
\* whether delete_blob succeeded or raised: it is 0 after a successful
\* pipeline and 1 after a fatal failure; and delete_blob is attempted once.
C15_CleanupFailureNotEscalated ==
    \A p \in Procs :
        /\ Len(CallsOf(p, { "delete_blob" })) <= 1
        /\ (Ended(p) /\ Len(CallsOf(p, { "delete_blob" })) = 1) =>
               exit_code[p] = IF PipelineSucceeded(p) THEN 0 ELSE 1

\* delete_blob raised at the end of a successful run, which ended with 0.
C15_Witness ==
    /\ Ended(1) /\ Made(1, "delete_blob", "raised")
    /\ PipelineSucceeded(1)
    /\ exit_code[1] = 0
    /\ HasBlob(blobs, staging_bucket_name[1], blob_name[1])


\* C16: in a run whose inference call raised, at the call or while a fragment
\* of the stream was consumed, no local output file is written and
\* upload_text_to_gcs is never called: what the loop had accumulated reaches
\* neither the output directory nor the output bucket.
C16_NoOutputWithoutInference ==
    \A p \in Procs :
        /\ InferenceRaised(p) =>
               /\ Len(CallsOf(p, { "write_local", "upload_text_to_gcs" })) = 0
               /\ \A f \in local_files : f.name # sanitize_filename(args[p].file_name)
               /\ \A b \in blobs : b.owner = p => b.text = None
        /\ Len(CallsOf(p, { "write_local", "upload_text_to_gcs" })) > 0 =>
               InferenceReturned(p)

\* The stream raised after the loop had accumulated "a"; the run has ended
\* without output.
C16_Witness ==
    /\ Ended(1) /\ InferenceRaised(1)
    /\ full_text[1] = <<"a">>
    /\ local_files = {}
    /\ exit_code[1] = 1

\* C17: a run whose upload_to_gcs raised exits with code 1 and never calls
\* delete_blob, with or without --keep-gcs.
C17_NoCleanupAfterFailedUpload ==
    \A p \in Procs :
        /\ Made(p, "upload_to_gcs", "raised") =>
               /\ Ended(p) /\ exit_code[p] = 1
               /\ Len(CallsOf(p, { "delete_blob" })) = 0
        /\ Len(CallsOf(p, { "delete_blob" })) > 0 => UploadReturned(p)

\* An upload raised in a run without --keep-gcs after it had stored the blob,
\* which is left in the bucket.
C17_Witness ==
    /\ Ended(1) /\ ~args[1].keep_gcs
    /\ Made(1, "upload_to_gcs", "raised")
    /\ HasBlob(blobs, staging_bucket_name[1], blob_name[1])


\* ------------------------------------------------------------------------
\* The two loops as functions of the sequence of fragments
\* ------------------------------------------------------------------------
\* transcribe_video, lines 96-103, on the fragments fs with the accumulator
\* acc: the text it returns, or None when it raises.
RECURSIVE LoopVertex(_, _)
LoopVertex(acc, fs) ==
    IF fs = <<>> THEN acc
    ELSE IF Head(fs) = None THEN None
    ELSE LoopVertex(Accumulate(acc, Head(fs)), Tail(fs))

\* transcribe_video_genai, lines 205-211, likewise.
RECURSIVE LoopGenai(_, _)
LoopGenai(acc, fs) ==
    IF fs = <<>> THEN acc
    ELSE LoopGenai(IF Truthy(Head(fs)) THEN Accumulate(acc, Head(fs)) ELSE acc, Tail(fs))

\* The loop of the variant the run uses has consumed all the fragments the
\* stream has yielded, and has returned or raised on the last of them.
LoopOutcome(p) ==
    IF InferenceReturned(p) THEN transcription_text[p] ELSE None

LoopDecided(p) ==
    \/ InferenceReturned(p)
    \/ /\ pc[p] = "except" /\ ~UseGenai(p)
       /\ Len(yielded[p]) > 0 /\ text_chunk[p] = None

\* C18: on every sequence of fragments, those with empty or absent text
\* included, the two variants end alike: what the variant of a run returned
\* (or that it raised) is what the other variant does on the same fragments.
C18_VariantsAgree ==
    \A p \in Procs :
        LoopDecided(p) =>
            /\ LoopOutcome(p) = LoopVertex(<<>>, yielded[p])
            /\ LoopOutcome(p) = LoopGenai(<<>>, yielded[p])

\* C19: a run whose local write raised after a successful inference exits
\* with code 1, never calls upload_text_to_gcs, and has deleted the staged
\* blob when it ends unless --keep-gcs was given.
C19_LocalWriteFailureFatal ==
    \A p \in Procs :
        Made(p, "write_local", "raised") =>
            /\ InferenceReturned(p)
            /\ Len(CallsOf(p, { "upload_text_to_gcs" })) = 0
            /\ Ended(p) =>
                 /\ exit_code[p] = 1
                 /\ Len(CallsOf(p, { "delete_blob" })) = IF args[p].keep_gcs THEN 0 ELSE 1
                 /\ Made(p, "delete_blob", "ok") =>
                        ~HasBlob(blobs, staging_bucket_name[p], blob_name[p])

\* The write raised after it had truncated the file; the run has ended with 1
\* and the staged blob is gone.
C19_Witness ==
    /\ Ended(1) /\ Made(1, "write_local", "raised")
    /\ File(<<"m", "_", "v", ".", "t", "x", "t">>, <<>>) \in local_files
    /\ transcription_text[1] = <<"a">>
    /\ exit_code[1] = 1
    /\ blobs = {}

====
